---- MODULE Spec2Model ----
(***************************************************************************)
(* State-machine model of the OpenAI-backed agent SDK:                      *)
(*   - OpenAITransport (generate, _ensure_client, _build_request,          *)
(*     _extract_text, _extract_usage),                                      *)
(*   - the Query Function (query / InternalClient.process_query),           *)
(*   - the Conversation Client (ClaudeSDKClient).                           *)
(* Python values are tagged records: the tag `py` is the value's type.      *)
(***************************************************************************)
EXTENDS Naturals, Sequences, FiniteSets, TLC

VARIABLES
    options,        \* ClaudeAgentOptions shared by the client and the query function
    environ,        \* os.environ["OPENAI_API_KEY"] (None when unset)
    stub,           \* TRUE: the client was given a duck-typed transport (tests' StubTransport)
    _client,        \* OpenAITransport._client of every transport instance
    _history,       \* ClaudeSDKClient._history
    _last_messages, \* ClaudeSDKClient._last_messages
    tasks,          \* per caller: position and locals of the call in flight
    calls,          \* per caller: what the latest entry-point call was seen to do
    turns,          \* completed submits in completion order: prompt, raw records,
                    \* the history its generate call was handed, the submits
                    \* in flight when it started
    closed,         \* disconnect() has run since the latest completed submit
    received,       \* what the latest receive_response() iteration yielded
    scope           \* "in" inside the client's async-with scope, else "out"

vars == <<options, environ, stub, _client, _history, _last_messages,
          tasks, calls, turns, closed, received, scope>>

----------------------------------------------------------------------------
(* Bounds *)

\* successful submits a behaviour may hold
MaxTurns == 2
\* callers (asyncio tasks) that may have a call in flight
NumTasks == 2

\* content segments an output item of a backend response may hold
MaxBlocks == 2
\* output items a backend response may hold
MaxItems == 2

Tasks == 1..NumTasks
\* transport 0 is the client's; transport t is the one the query function
\* builds for caller t
TransportIds == 0..NumTasks

----------------------------------------------------------------------------
(* Python values *)

None == [py |-> "NoneType", v |-> ""]
Str(s) == [py |-> "str", v |-> s]
Int(s) == [py |-> "int", v |-> s]
Float(s) == [py |-> "float", v |-> s]
PyList(items) == [py |-> "list", v |-> items]

isinstance_str(x) == x.py = "str"
isinstance_list(x) == x.py = "list"

\* bool(x) as `or`, `if x:` and `if not x:` take it
Truthy(x) ==
    CASE x.py = "NoneType" -> FALSE
      [] x.py = "str" -> x.v # ""
      [] x.py = "int" -> x.v # "0"
      [] x.py = "float" -> x.v # "0.0"
      [] x.py = "list" -> x.v # <<>>
      [] x.py = "dict" -> x.v # <<>>
      [] OTHER -> TRUE

\* a or b
PyOr(a, b) == IF Truthy(a) THEN a ELSE b

\* str(x) of a str or an int (its decimal rendering)
PyStr(x) == Str(x.v)

RECURSIVE SeqConcat(_)
SeqConcat(ss) == IF ss = <<>> THEN <<>> ELSE Head(ss) \o SeqConcat(Tail(ss))

IsPrefix(s, t) == Len(s) <= Len(t) /\ SubSeq(t, 1, Len(s)) = s

----------------------------------------------------------------------------
(* Input domains *)

Prompts == {Str("A"), Str("B"), Int("7")}

TextSegment(text) == [type |-> "text", text |-> text]

UserEntry(prompt) == [role |-> "user", content |-> PyList(<<TextSegment(prompt)>>)]

\* the injected backend client handle (ClaudeAgentOptions.openai_client)
InjectedClient == [py |-> "FakeAsyncOpenAI", v |-> "injected"]

DefaultOptions ==
    [model |-> None, openai_api_key |-> None, openai_organization |-> None,
     openai_project |-> None, temperature |-> None, max_output_tokens |-> None,
     response_format |-> None, openai_client |-> None, system_prompt |-> None,
     extra_headers |-> [py |-> "dict", v |-> <<>>]]

Config(openai_client, openai_api_key, env_key, is_stub) ==
    [options |-> [DefaultOptions EXCEPT !.openai_client = openai_client,
                                        !.openai_api_key = openai_api_key],
     environ |-> env_key, stub |-> is_stub]

\* the configurations behaviours start from: Options' backend client handle
\* and key, the OPENAI_API_KEY variable, and whether the client was handed
\* a duck-typed transport
Configs ==
    { Config(InjectedClient, Str("dummy"), None, FALSE),
      Config(InjectedClient, None, None, TRUE),
      Config(None, None, None, FALSE),
      Config(None, Str(""), Str(""), FALSE),
      Config(None, Str("sk-opt"), Str("sk-env"), FALSE),
      Config(None, Str(""), Str("sk-env"), FALSE),
      Config(None, None, Str("sk-env"), TRUE) }

----------------------------------------------------------------------------
(* Python dicts and keyword arguments: functions from key to value *)

EmptyMap == [k \in {} |-> None]

\* {key: value} when cond holds, {} otherwise
Item(cond, key, value) == IF cond THEN key :> value ELSE EmptyMap

PyDict(m) == [py |-> "dict", v |-> m]

\* d.get(key): the value, None when the key is absent
DictGet(d, key) == IF key \in DOMAIN d.v THEN d.v[key] ELSE None

\* getattr(obj, name, None) of an object modelled as a record of its attributes
GetAttr(obj, name) == IF name \in DOMAIN obj THEN obj[name] ELSE None

hasattr(obj, name) == name \in DOMAIN obj

\* the values of ClaudeAgentOptions' request fields behaviours start from
Models == {None, Str("gpt-5")}

Temperatures == {None, Float("0.0"), Float("0.7")}

MaxOutputTokens == {None, Int("0"), Int("256")}

ResponseFormats ==
    {None, Str("json_object"), PyDict("type" :> Str("json_schema"))}

ExtraHeaders == {PyDict(EmptyMap), PyDict("X-Test" :> Str("1"))}

\* SystemPromptPreset: {"type": "preset", "preset": "claude_code"}, with
\* "append" when one is given
Preset(append) ==
    PyDict([type |-> Str("preset"), preset |-> Str("claude_code")]
           @@ Item(append # None, "append", append))

SystemPrompts ==
    {None, Str(""), Str("Be brief"), Preset(None), Preset(Str("")), Preset(Str("Extra"))}

\* Options with an injected backend client and each system prompt
PromptOptions ==
    { [DefaultOptions EXCEPT !.openai_client = InjectedClient, !.system_prompt = sp] :
        sp \in SystemPrompts }

\* Options with an injected backend client and every combination of the
\* request fields
RequestOptions ==
    { [DefaultOptions EXCEPT !.openai_client = InjectedClient, !.model = m,
                             !.temperature = te, !.max_output_tokens = mo,
                             !.response_format = rf, !.extra_headers = eh] :
        m \in Models, te \in Temperatures, mo \in MaxOutputTokens,
        rf \in ResponseFormats, eh \in ExtraHeaders }

----------------------------------------------------------------------------
(* OpenAITransport *)

\* AsyncOpenAI(**client_kwargs)
AsyncOpenAI(client_kwargs) == [py |-> "AsyncOpenAI", kwargs |-> client_kwargs]

\* OpenAITransport.__init__: self._client = options.openai_client
TransportInit == options.openai_client

\* _ensure_client building a client whatever the key it found
ensure_client_any_key(cur) ==
    IF cur # None
    THEN [raised |-> FALSE, client |-> cur, constructed |-> FALSE, looked_up |-> FALSE]
    ELSE [raised |-> FALSE,
          client |-> AsyncOpenAI("api_key" :> PyOr(options.openai_api_key, environ)),
          constructed |-> TRUE, looked_up |-> TRUE]

\* _ensure_client looking the key up and building a client on every call,
\* whatever handle the transport holds
ensure_client_no_memo(cur) ==
    LET api_key == PyOr(options.openai_api_key, environ)
    IN IF ~Truthy(api_key)
       THEN [raised |-> TRUE, client |-> None, constructed |-> FALSE, looked_up |-> TRUE]
       ELSE [raised |-> FALSE, client |-> AsyncOpenAI("api_key" :> api_key),
             constructed |-> TRUE, looked_up |-> TRUE]

\* OpenAITransport._ensure_client on a transport whose self._client is cur
_ensure_client(cur) ==
    IF cur # None
    THEN [raised |-> FALSE, client |-> cur, constructed |-> FALSE, looked_up |-> FALSE]
    ELSE LET api_key == PyOr(options.openai_api_key, environ)
             client_kwargs ==
                 ("api_key" :> api_key)
                 @@ Item(Truthy(options.openai_organization), "organization",
                         options.openai_organization)
                 @@ Item(Truthy(options.openai_project), "project",
                         options.openai_project)
         IN IF ~Truthy(api_key)
            THEN [raised |-> TRUE, client |-> None, constructed |-> FALSE,
                  looked_up |-> TRUE]
            ELSE [raised |-> FALSE, client |-> AsyncOpenAI(client_kwargs),
                  constructed |-> TRUE, looked_up |-> TRUE]

\* the system text taken to be options.system_prompt itself, preset or not
SystemText_whole_prompt == options.system_prompt

\* the system text _build_request resolves from options.system_prompt
SystemText ==
    IF options.system_prompt.py = "dict"
    THEN DictGet(options.system_prompt, "append")
    ELSE options.system_prompt

\* _build_request putting the system entry in front of the history
build_request_system_first(prompt, history) ==
    LET model == PyOr(options.model, Str("gpt-5-codex"))
        seeded == IF Truthy(history) THEN history.v ELSE <<>>
        system == IF Truthy(SystemText)
                  THEN <<[role |-> "system",
                          content |-> PyList(<<TextSegment(PyStr(SystemText))>>)]>>
                  ELSE <<>>
        input_messages == system \o seeded \o <<UserEntry(prompt)>>
    IN  ("model" :> model) @@ ("input" :> PyList(input_messages))
        @@ Item(options.temperature # None, "temperature", options.temperature)
        @@ Item(options.max_output_tokens # None, "max_output_tokens",
                options.max_output_tokens)
        @@ Item(options.response_format # None, "response_format",
                IF isinstance_str(options.response_format)
                THEN PyDict("type" :> options.response_format)
                ELSE options.response_format)
        @@ Item(Truthy(options.extra_headers), "extra_headers", options.extra_headers)

\* _build_request testing the temperature and the token cap for truth
build_request_truthy_fields(prompt, history) ==
    LET model == PyOr(options.model, Str("gpt-5-codex"))
        seeded == IF Truthy(history) THEN history.v ELSE <<>>
        system == IF Truthy(SystemText)
                  THEN <<[role |-> "system",
                          content |-> PyList(<<TextSegment(PyStr(SystemText))>>)]>>
                  ELSE <<>>
        input_messages == seeded \o system \o <<UserEntry(prompt)>>
    IN  ("model" :> model) @@ ("input" :> PyList(input_messages))
        @@ Item(Truthy(options.temperature), "temperature", options.temperature)
        @@ Item(Truthy(options.max_output_tokens), "max_output_tokens",
                options.max_output_tokens)
        @@ Item(options.response_format # None, "response_format",
                IF isinstance_str(options.response_format)
                THEN PyDict("type" :> options.response_format)
                ELSE options.response_format)
        @@ Item(Truthy(options.extra_headers), "extra_headers", options.extra_headers)

\* OpenAITransport._build_request(prompt, history): the keyword arguments of
\* responses.create
_build_request(prompt, history) ==
    LET model == PyOr(options.model, Str("gpt-5-codex"))
        seeded == IF Truthy(history) THEN history.v ELSE <<>>
        system == IF Truthy(SystemText)
                  THEN <<[role |-> "system",
                          content |-> PyList(<<TextSegment(PyStr(SystemText))>>)]>>
                  ELSE <<>>
        input_messages == seeded \o system \o <<UserEntry(prompt)>>
    IN  ("model" :> model) @@ ("input" :> PyList(input_messages))
        @@ Item(options.temperature # None, "temperature", options.temperature)
        @@ Item(options.max_output_tokens # None, "max_output_tokens",
                options.max_output_tokens)
        @@ Item(options.response_format # None, "response_format",
                IF isinstance_str(options.response_format)
                THEN PyDict("type" :> options.response_format)
                ELSE options.response_format)
        @@ Item(Truthy(options.extra_headers), "extra_headers", options.extra_headers)

\* the inner loop of _extract_text without its test of the block's type
RECURSIVE FirstTextBlock_any_type(_)
FirstTextBlock_any_type(blocks) ==
    IF blocks = <<>> THEN [found |-> FALSE, text |-> None]
    ELSE LET block == Head(blocks)
         IN IF /\ block.py = "dict"
               /\ isinstance_str(DictGet(block, "text"))
            THEN [found |-> TRUE, text |-> DictGet(block, "text")]
            ELSE FirstTextBlock_any_type(Tail(blocks))

\* the inner loop of _extract_text: the first block of a content list that is
\* a dict of type output_text whose text is a str
RECURSIVE FirstTextBlock(_)
FirstTextBlock(blocks) ==
    IF blocks = <<>> THEN [found |-> FALSE, text |-> None]
    ELSE LET block == Head(blocks)
         IN IF /\ block.py = "dict"
               /\ DictGet(block, "type") = Str("output_text")
               /\ isinstance_str(DictGet(block, "text"))
            THEN [found |-> TRUE, text |-> DictGet(block, "text")]
            ELSE FirstTextBlock(Tail(blocks))

\* the outer loop of _extract_text over response.output
RECURSIVE ScanOutput(_)
ScanOutput(output) ==
    IF output = <<>> THEN [found |-> FALSE, text |-> None]
    ELSE LET item == Head(output)
             content == IF item.py = "dict" THEN DictGet(item, "content") ELSE None
             hit == IF isinstance_list(content) THEN FirstTextBlock(content.v)
                    ELSE [found |-> FALSE, text |-> None]
         IN IF hit.found THEN hit ELSE ScanOutput(Tail(output))

\* OpenAITransport._extract_text(response)
_extract_text(response) ==
    IF hasattr(response, "output_text") /\ response.output_text # None
    THEN [raised |-> FALSE, text |-> PyStr(response.output_text)]
    ELSE LET output == GetAttr(response, "output")
             hit == IF Truthy(output) THEN ScanOutput(output.v)
                    ELSE [found |-> FALSE, text |-> None]
         IN [raised |-> ~hit.found, text |-> hit.text]

UsageKeys == {"input_tokens", "output_tokens", "total_tokens"}

\* OpenAITransport._extract_usage(response)
_extract_usage(response) ==
    LET usage == GetAttr(response, "usage")
    IN IF ~Truthy(usage) THEN None
       ELSE IF usage.py = "dict" THEN usage
       ELSE LET usage_dict == [k \in (UsageKeys \cap DOMAIN usage.v) |-> usage.v[k]]
            IN IF DOMAIN usage_dict # {} THEN PyDict(usage_dict) ELSE None

\* the assistant raw record generate builds
AssistantRecord(model, text) ==
    [type |-> "assistant",
     message |-> [role |-> "assistant", model |-> model,
                  content |-> PyList(<<TextSegment(text)>>)]]

\* the result raw record generate builds
ResultRecord(duration_ms, session_id, usage, text) ==
    [type |-> "result", subtype |-> "success", duration_ms |-> duration_ms,
     duration_api_ms |-> duration_ms, is_error |-> FALSE, num_turns |-> 1,
     session_id |-> session_id, total_cost_usd |-> None, usage |-> usage,
     result |-> text]

\* generate extracting the text only after it yielded the assistant record
GenerateTail_late_extract(request_payload, response, duration_ms, session_id) ==
    LET extracted == _extract_text(response)
        assistant == AssistantRecord(request_payload["model"], extracted.text)
    IN IF extracted.raised
       THEN [yielded |-> <<assistant>>, raised |-> TRUE]
       ELSE [yielded |-> <<assistant,
                           ResultRecord(duration_ms, session_id,
                                        _extract_usage(response), extracted.text)>>,
             raised |-> FALSE]

\* generate yielding the result record alone
GenerateTail_result_only(request_payload, response, duration_ms, session_id) ==
    LET extracted == _extract_text(response)
    IN IF extracted.raised
       THEN [yielded |-> <<>>, raised |-> TRUE]
       ELSE [yielded |-> <<ResultRecord(duration_ms, session_id,
                                        _extract_usage(response), extracted.text)>>,
             raised |-> FALSE]

\* OpenAITransport.generate after responses.create returned `response`: the
\* records it yields, in order, and whether it raises after yielding them
GenerateTail(request_payload, response, duration_ms, session_id) ==
    LET extracted == _extract_text(response)
        usage == _extract_usage(response)
    IN IF extracted.raised
       THEN [yielded |-> <<>>, raised |-> TRUE]
       ELSE [yielded |-> <<AssistantRecord(request_payload["model"], extracted.text),
                           ResultRecord(duration_ms, session_id, usage, extracted.text)>>,
             raised |-> FALSE]

----------------------------------------------------------------------------
(* Message Parser (claude_agent_sdk._internal.message_parser) *)

\* the content blocks of an assistant record's content: one TextBlock per
\* text segment of a list, none for an empty non-list iterable
RECURSIVE ParseBlocks(_)
ParseBlocks(blocks) ==
    IF blocks = <<>> THEN <<>>
    ELSE <<[block |-> "TextBlock", text |-> Head(blocks).text]>> \o ParseBlocks(Tail(blocks))

\* parse_message(raw): the typed message, or raised for a record that is
\* neither an assistant nor a result record
parse_message(raw) ==
    IF raw.type = "assistant" /\ "message" \in DOMAIN raw
    THEN [raised |-> FALSE,
          message |-> [class |-> "AssistantMessage",
                       content |-> IF isinstance_list(raw.message.content)
                                   THEN ParseBlocks(raw.message.content.v)
                                   ELSE <<>>,
                       model |-> raw.message.model]]
    ELSE IF raw.type = "result"
    THEN [raised |-> FALSE,
          message |-> [class |-> "ResultMessage", subtype |-> raw.subtype,
                       duration_ms |-> raw.duration_ms,
                       duration_api_ms |-> raw.duration_api_ms,
                       is_error |-> raw.is_error, num_turns |-> raw.num_turns,
                       session_id |-> raw.session_id,
                       total_cost_usd |-> raw.total_cost_usd,
                       usage |-> raw.usage, result |-> raw.result]]
    ELSE [raised |-> TRUE, message |-> None]

\* parse_message over a whole batch of records none of which it rejects
RECURSIVE ParseAll(_)
ParseAll(raws) ==
    IF raws = <<>> THEN <<>>
    ELSE <<parse_message(Head(raws)).message>> \o ParseAll(Tail(raws))

----------------------------------------------------------------------------
(* ClaudeSDKClient *)

\* raw.get("message", {}).get("content")
RawContent(raw) ==
    IF "message" \in DOMAIN raw /\ "content" \in DOMAIN raw.message
    THEN raw.message.content ELSE None

\* the loop of _append_turn without its isinstance(content, list) test
AssistantEntries_any_content(raw_messages) ==
    LET assistants == SelectSeq(raw_messages, LAMBDA raw : raw.type = "assistant")
    IN [i \in 1..Len(assistants) |->
           [role |-> "assistant", content |-> RawContent(assistants[i])]]

\* the loop of _append_turn: the assistant entries of one turn's raw records
RECURSIVE AssistantEntries(_)
AssistantEntries(raw_messages) ==
    IF raw_messages = <<>> THEN <<>>
    ELSE LET raw == Head(raw_messages)
             content == RawContent(raw)
             entry == IF ~("type" \in DOMAIN raw /\ raw.type = "assistant") THEN <<>>
                      ELSE IF ~isinstance_list(content) THEN <<>>
                      ELSE <<[role |-> "assistant", content |-> content]>>
         IN entry \o AssistantEntries(Tail(raw_messages))

\* _append_turn appending the assistant entries without the user entry
append_turn_assistants_only(history, prompt, raw_messages) ==
    history \o AssistantEntries(raw_messages)

\* _append_turn putting the new turn in front of the history
append_turn_in_front(history, prompt, raw_messages) ==
    <<UserEntry(prompt)>> \o AssistantEntries(raw_messages) \o history

\* _append_turn with the user entry appended after the assistant entries
append_turn_user_last(history, prompt, raw_messages) ==
    history \o AssistantEntries(raw_messages) \o <<UserEntry(prompt)>>

\* ClaudeSDKClient._append_turn: the history after the turn
_append_turn(history, prompt, raw_messages) ==
    history \o <<UserEntry(prompt)>> \o AssistantEntries(raw_messages)

\* the end of ClaudeSDKClient.query, after the transport's sequence ended: the
\* client's state after it
query_commit(prompt, raw_messages, responses) ==
    [_last_messages |-> responses,
     _history |-> _append_turn(_history, prompt, raw_messages)]

\* receive_response draining the slot as it yields
receive_response_draining ==
    [yielded |-> _last_messages, _last_messages |-> <<>>, _history |-> _history]

\* ClaudeSDKClient.receive_response: what one iteration yields and the slot after it
receive_response ==
    [yielded |-> _last_messages, _last_messages |-> _last_messages,
     _history |-> _history]

\* disconnect dropping the history with the slot
disconnect_drops_history == [_last_messages |-> <<>>, _history |-> <<>>]

\* ClaudeSDKClient.disconnect: the client's state after it
disconnect == [_last_messages |-> <<>>, _history |-> _history]

\* ClaudeSDKClient.__aexit__: the client's state after it (it returns False
\* and touches nothing)
aexit == [_last_messages |-> _last_messages, _history |-> _history]

----------------------------------------------------------------------------
(* The environment: backend responses, clock, transport doubles *)

FakeUsage == [py |-> "FakeUsage", v |-> [input_tokens |-> Int("12"), output_tokens |-> Int("24")]]

OutputText(text) == PyDict([type |-> Str("output_text"), text |-> text])

\* what responses.create may return
Responses ==
    { \* tests' FakeResponse: the convenience field and a usage object
      [output_text |-> Str("Hello from GPT"), usage |-> FakeUsage],
      \* convenience field null: the output blocks are scanned
      [output_text |-> None,
       output |-> PyList(<<PyDict([content |-> PyList(<<PyDict([type |-> Str("reasoning")]),
                                                         OutputText(Str("42"))>>)])>>)],
      \* a convenience field that is not a str: str() renders it
      [output_text |-> Int("42")],
      \* no text anywhere
      [output_text |-> None, output |-> PyList(<<>>)] }

\* all sequences over S of length at most n
SeqsUpTo(S, n) == UNION {[1..k -> S] : k \in 0..n}

\* the content segments of an output item: text-typed with a str text, with a
\* null text, and of another type with a text
Blocks ==
    { OutputText(Str("first")), OutputText(Str("second")), OutputText(None),
      PyDict([type |-> Str("reasoning"), text |-> Str("thought")]) }

\* the content lists of an output item: up to MaxBlocks different segments
ContentLists ==
    { bs \in SeqsUpTo(Blocks, MaxBlocks) :
        \A i, j \in DOMAIN bs : bs[i] = bs[j] => i = j }

\* the items of response.output: mappings whose content lists segments, a
\* mapping whose content is no list, and an item that is no mapping
OutputItems ==
    { PyDict([content |-> PyList(bs)]) : bs \in ContentLists }
    \cup { PyDict([content |-> Str("first")]),
           [py |-> "ResponseOutputMessage",
            content |-> PyList(<<OutputText(Str("first"))>>)] }

Outputs == { PyList(items) : items \in SeqsUpTo(OutputItems, MaxItems) }

\* what responses.create may return to a call whose text is to be extracted:
\* the convenience field set over output blocks, null over every output, and
\* absent, with the output absent or null too
ExtractResponses ==
    { [output_text |-> t,
       output |-> PyList(<<PyDict([content |-> PyList(<<OutputText(Str("second"))>>)])>>)] :
        t \in {Str("Hello from GPT"), Str(""), Int("42")} }
    \cup { [output_text |-> None, output |-> o] : o \in Outputs }
    \cup { [output |-> PyList(<<item>>)] : item \in OutputItems }
    \cup { [output_text |-> None], [output_text |-> None, output |-> None],
           [usage |-> FakeUsage] }

\* int((perf_counter() - start_time) * 1000)
Durations == {12}

\* str(uuid.uuid4())
SessionIds == {Str("uuid4")}

StubAssistant(text) == AssistantRecord(Str("gpt-5-codex"), Str(text))

StubResult ==
    ResultRecord(10, Str("test-session"),
                 PyDict([input_tokens |-> Int("1"), output_tokens |-> Int("1")]), Str("42"))

\* an assistant record whose content is not a list (an empty str)
StubNoList ==
    [type |-> "assistant",
     message |-> [role |-> "assistant", model |-> Str("gpt-5-codex"), content |-> Str("")]]

\* a record of a type the parser does not know
StubUnknown == [type |-> "stream_event"]

\* the batches a duck-typed transport is scripted with (tests' StubTransport.responses)
StubBatches ==
    { <<>>,
      <<StubAssistant("Hi there")>>,
      <<StubAssistant("42"), StubResult>>,
      <<StubResult, StubAssistant("Hi there"), StubAssistant("Another reply")>>,
      <<StubNoList, StubResult>>,
      <<StubAssistant("42"), StubUnknown>> }

\* the history arguments a direct caller of OpenAITransport.generate passes
DirectHistories == {None, PyList(<<UserEntry(Str("A"))>>)}

----------------------------------------------------------------------------
(* Callers *)

IdleTask ==
    [pc |-> "idle", entry |-> "none", prompt |-> None, tid |-> 0,
     request_payload |-> EmptyMap, pending |-> <<>>,
     raw_messages |-> <<>>, responses |-> <<>>]

NoCall ==
    [entry |-> "none", prompt |-> None, status |-> "none", transport |-> "none",
     made_transport |-> FALSE, generated |-> FALSE, history |-> None,
     ensured |-> FALSE, looked_up |-> FALSE, constructed |-> FALSE, creates |-> 0,
     request |-> EmptyMap, response |-> None, yielded |-> <<>>, delivered |-> <<>>,
     after_close |-> FALSE, rank |-> 0]

Idle(t) == tasks[t].pc = "idle"

\* the submits of other callers suspended in their loop when caller t starts
\* a call
InFlight(t) == Cardinality({u \in Tasks \ {t} : tasks[u].entry = "submit"})

Init ==
    /\ \E c \in Configs : options = c.options /\ environ = c.environ /\ stub = c.stub
    /\ _client = [i \in TransportIds |-> options.openai_client]
    /\ _history = <<>>
    /\ _last_messages = <<>>
    /\ tasks = [t \in Tasks |-> IdleTask]
    /\ calls = [t \in Tasks |-> NoCall]
    /\ turns = <<>>
    /\ closed = FALSE
    /\ received = <<>>
    /\ scope = "out"

\* OpenAITransport.generate from its first line to the suspension at
\* responses.create, on transport tid (just built when fresh)
GenerateBegin(t, entry, prompt, history, tid, fresh) ==
    LET cur == IF fresh THEN TransportInit ELSE _client[tid]
        base == [NoCall EXCEPT !.entry = entry, !.prompt = prompt,
                               !.transport = "openai", !.made_transport = fresh,
                               !.generated = TRUE, !.history = history,
                               !.after_close = closed, !.rank = InFlight(t)]
        e == _ensure_client(cur)
        request_payload == _build_request(prompt, history)
    IN IF ~isinstance_str(prompt)
       THEN /\ calls' = [calls EXCEPT ![t] = [base EXCEPT !.status = "TypeError"]]
            /\ _client' = [_client EXCEPT ![tid] = cur]
            /\ tasks' = [tasks EXCEPT ![t] = IdleTask]
       ELSE IF e.raised
       THEN /\ calls' = [calls EXCEPT ![t] =
                            [base EXCEPT !.status = "ConfigError", !.ensured = TRUE,
                                         !.looked_up = e.looked_up]]
            /\ _client' = [_client EXCEPT ![tid] = cur]
            /\ tasks' = [tasks EXCEPT ![t] = IdleTask]
       ELSE /\ calls' = [calls EXCEPT ![t] =
                            [base EXCEPT !.status = "running", !.ensured = TRUE,
                                         !.looked_up = e.looked_up,
                                         !.constructed = e.constructed,
                                         !.creates = 1, !.request = request_payload]]
            /\ _client' = [_client EXCEPT ![tid] = e.client]
            /\ tasks' = [tasks EXCEPT ![t] =
                            [IdleTask EXCEPT !.pc = "awaiting", !.entry = entry,
                                             !.prompt = prompt, !.tid = tid,
                                             !.request_payload = request_payload]]

\* a duck-typed transport's generate is called: it records the call and is
\* about to yield its next scripted batch
StubBegin(t, entry, prompt, history, batch) ==
    /\ calls' = [calls EXCEPT ![t] =
                    [NoCall EXCEPT !.entry = entry, !.prompt = prompt,
                                   !.transport = "stub", !.generated = TRUE,
                                   !.history = history, !.status = "running",
                                   !.after_close = closed, !.rank = InFlight(t)]]
    /\ tasks' = [tasks EXCEPT ![t] =
                    [IdleTask EXCEPT !.pc = "receiving", !.entry = entry,
                                     !.prompt = prompt, !.pending = batch]]
    /\ UNCHANGED _client

\* the caller's entry point raised before calling any transport
Rejected(t, entry, prompt) ==
    /\ calls' = [calls EXCEPT ![t] =
                    [NoCall EXCEPT !.entry = entry, !.prompt = prompt,
                                   !.status = "TypeError"]]
    /\ UNCHANGED <<tasks, _client>>

\* ClaudeSDKClient.query without its isinstance test
Submit_unchecked(t, prompt) ==
    /\ Idle(t)
    /\ Len(turns) < MaxTurns
    /\ IF stub
       THEN \E batch \in StubBatches :
                StubBegin(t, "submit", prompt, PyList(_history), batch)
       ELSE GenerateBegin(t, "submit", prompt, PyList(_history), 0, FALSE)
    /\ UNCHANGED <<options, environ, stub, _history, _last_messages, turns, closed,
                   received, scope>>

\* ClaudeSDKClient.query(prompt) up to the first suspension
Submit(t, prompt) ==
    /\ Idle(t)
    /\ Len(turns) < MaxTurns
    /\ IF ~isinstance_str(prompt)
       THEN Rejected(t, "submit", prompt)
       ELSE IF stub
       THEN \E batch \in StubBatches :
                StubBegin(t, "submit", prompt, PyList(_history), batch)
       ELSE GenerateBegin(t, "submit", prompt, PyList(_history), 0, FALSE)
    /\ UNCHANGED <<options, environ, stub, _history, _last_messages, turns, closed,
                   received, scope>>

\* the query function handing the transport the client's history
Query_with_history(t, prompt, supplied) ==
    /\ Idle(t)
    /\ IF ~isinstance_str(prompt)
       THEN Rejected(t, "query", prompt)
       ELSE IF supplied /\ stub
       THEN \E batch \in StubBatches :
                StubBegin(t, "query", prompt, PyList(_history), batch)
       ELSE IF supplied
       THEN GenerateBegin(t, "query", prompt, PyList(_history), 0, FALSE)
       ELSE GenerateBegin(t, "query", prompt, PyList(_history), t, TRUE)
    /\ UNCHANGED <<options, environ, stub, _history, _last_messages, turns, closed,
                   received, scope>>

\* query(prompt=..., options=..., transport=...) up to the first suspension;
\* supplied: the caller passes the client's transport, else one is built
Query(t, prompt, supplied) ==
    /\ Idle(t)
    /\ IF ~isinstance_str(prompt)
       THEN Rejected(t, "query", prompt)
       ELSE IF supplied /\ stub
       THEN \E batch \in StubBatches : StubBegin(t, "query", prompt, None, batch)
       ELSE IF supplied
       THEN GenerateBegin(t, "query", prompt, None, 0, FALSE)
       ELSE GenerateBegin(t, "query", prompt, None, t, TRUE)
    /\ UNCHANGED <<options, environ, stub, _history, _last_messages, turns, closed,
                   received, scope>>

\* a direct call of OpenAITransport.generate on the client's transport
Generate(t, prompt, history) ==
    /\ Idle(t)
    /\ ~stub
    /\ GenerateBegin(t, "generate", prompt, history, 0, FALSE)
    /\ UNCHANGED <<options, environ, stub, _history, _last_messages, turns, closed,
                   received, scope>>

\* the arguments a caller passes to OpenAITransport.stream
StreamInputs == {None, PyList(<<>>)}

\* how a caller consumes transport.stream(prompts): "await" runs the
\* coroutine the call returns; "async_for" iterates it, as the declared
\* AsyncIterator return type invites
StreamUses == {"await", "async_for"}

\* OpenAITransport.stream(prompts) on the client's transport. stream is an
\* async def without a yield, so calling it returns a coroutine: awaited, its
\* body raises NotImplementedError; under async for the interpreter raises
\* TypeError (a coroutine has no __aiter__) and the body never runs.
Stream(t, prompts, use) ==
    /\ Idle(t)
    /\ ~stub
    /\ calls' = [calls EXCEPT ![t] =
                    [NoCall EXCEPT !.entry = "stream", !.prompt = prompts,
                                   !.transport = "openai",
                                   !.status = IF use = "await"
                                              THEN "NotImplementedError"
                                              ELSE "TypeError",
                                   !.after_close = closed]]
    /\ UNCHANGED <<options, environ, stub, _client, _history, _last_messages, tasks,
                   turns, closed, received, scope>>

\* the end of ClaudeSDKClient.query rebuilding the history from the list its
\* generate call was handed instead of appending to the list in place
Finish_from_snapshot(t, raw_messages, responses) ==
    IF tasks[t].entry = "submit"
    THEN /\ _last_messages' = responses
         /\ _history' = _append_turn(calls[t].history.v, tasks[t].prompt, raw_messages)
         /\ turns' = Append(turns, [prompt |-> tasks[t].prompt,
                                    raw_messages |-> raw_messages,
                                    history |-> calls[t].history,
                                    rank |-> calls[t].rank])
         /\ closed' = FALSE
    ELSE UNCHANGED <<_history, _last_messages, turns, closed>>

\* the caller's loop ended normally: ClaudeSDKClient.query commits the turn,
\* the other entry points just return
Finish(t, raw_messages, responses) ==
    IF tasks[t].entry = "submit"
    THEN LET after == query_commit(tasks[t].prompt, raw_messages, responses)
         IN /\ _last_messages' = after._last_messages
            /\ _history' = after._history
            /\ turns' = Append(turns, [prompt |-> tasks[t].prompt,
                                       raw_messages |-> raw_messages,
                                       history |-> calls[t].history,
                                       rank |-> calls[t].rank])
            /\ closed' = FALSE
    ELSE UNCHANGED <<_history, _last_messages, turns, closed>>

\* responses.create returns: generate extracts, yields its records and ends
CreateReturns(t, response, duration_ms, session_id) ==
    /\ tasks[t].pc = "awaiting"
    /\ LET g == GenerateTail(tasks[t].request_payload, response, duration_ms, session_id)
           responses == ParseAll(g.yielded)
       IN /\ calls' = [calls EXCEPT ![t].response = response,
                                    ![t].yielded = g.yielded,
                                    ![t].delivered =
                                        IF tasks[t].entry = "generate" THEN g.yielded
                                        ELSE responses,
                                    ![t].status =
                                        IF g.raised THEN "ExtractError" ELSE "ok"]
          /\ IF g.raised
             THEN UNCHANGED <<_history, _last_messages, turns, closed>>
             ELSE Finish(t, g.yielded, responses)
    /\ tasks' = [tasks EXCEPT ![t] = IdleTask]
    /\ UNCHANGED <<options, environ, stub, _client, received, scope>>

\* generate calling responses.create again after it raised
CreateRaises_retry(t) ==
    /\ tasks[t].pc = "awaiting"
    /\ calls[t].creates < 2
    /\ calls' = [calls EXCEPT ![t].creates = @ + 1]
    /\ UNCHANGED <<options, environ, stub, _client, _history, _last_messages, tasks,
                   turns, closed, received, scope>>

\* responses.create raises: the error propagates through generate to the caller
CreateRaises(t) ==
    /\ tasks[t].pc = "awaiting"
    /\ calls' = [calls EXCEPT ![t].status = "BackendError"]
    /\ tasks' = [tasks EXCEPT ![t] = IdleTask]
    /\ UNCHANGED <<options, environ, stub, _client, _history, _last_messages, turns,
                   closed, received, scope>>

\* the duck-typed transport yields its next record; the caller's loop body
\* appends it and parses it
StubYield(t) ==
    /\ tasks[t].pc = "receiving"
    /\ tasks[t].pending # <<>>
    /\ LET raw == Head(tasks[t].pending)
           parsed == parse_message(raw)
       IN IF parsed.raised
          THEN /\ calls' = [calls EXCEPT ![t].yielded = Append(@, raw),
                                         ![t].status = "ParseError"]
               /\ tasks' = [tasks EXCEPT ![t] = IdleTask]
          ELSE /\ calls' = [calls EXCEPT ![t].yielded = Append(@, raw),
                                         ![t].delivered = Append(@, parsed.message)]
               /\ tasks' = [tasks EXCEPT ![t].pending = Tail(@),
                                         ![t].raw_messages = Append(@, raw),
                                         ![t].responses = Append(@, parsed.message)]
    /\ UNCHANGED <<options, environ, stub, _client, _history, _last_messages, turns,
                   closed, received, scope>>

\* the duck-typed transport's sequence ends
StubEnd(t) ==
    /\ tasks[t].pc = "receiving"
    /\ tasks[t].pending = <<>>
    /\ calls' = [calls EXCEPT ![t].status = "ok"]
    /\ Finish(t, tasks[t].raw_messages, tasks[t].responses)
    /\ tasks' = [tasks EXCEPT ![t] = IdleTask]
    /\ UNCHANGED <<options, environ, stub, _client, received, scope>>

\* a submit whose transport raises storing the messages received so far
StubRaises_partial_commit(t) ==
    /\ tasks[t].pc = "receiving"
    /\ calls' = [calls EXCEPT ![t].status = "TransportError"]
    /\ _last_messages' = IF tasks[t].entry = "submit" THEN tasks[t].responses
                         ELSE _last_messages
    /\ tasks' = [tasks EXCEPT ![t] = IdleTask]
    /\ UNCHANGED <<options, environ, stub, _client, _history, turns,
                   closed, received, scope>>

\* the duck-typed transport raises instead of yielding or ending
StubRaises(t) ==
    /\ tasks[t].pc = "receiving"
    /\ calls' = [calls EXCEPT ![t].status = "TransportError"]
    /\ tasks' = [tasks EXCEPT ![t] = IdleTask]
    /\ UNCHANGED <<options, environ, stub, _client, _history, _last_messages, turns,
                   closed, received, scope>>

\* one full iteration of client.receive_response()
ReceiveResponse ==
    /\ received' = receive_response.yielded
    /\ _last_messages' = receive_response._last_messages
    /\ _history' = receive_response._history
    /\ UNCHANGED <<options, environ, stub, _client, tasks, calls, turns, closed, scope>>

\* client.disconnect()
Disconnect ==
    /\ _last_messages' = disconnect._last_messages
    /\ _history' = disconnect._history
    /\ closed' = TRUE
    /\ UNCHANGED <<options, environ, stub, _client, tasks, calls, turns, received, scope>>

\* async with client: __aenter__
AEnter ==
    /\ scope = "out"
    /\ scope' = "in"
    /\ UNCHANGED <<options, environ, stub, _client, _history, _last_messages, tasks,
                   calls, turns, closed, received>>

\* the scope is left, normally or by an error raised in its body: __aexit__
AExit(error) ==
    /\ scope = "in"
    /\ scope' = "out"
    /\ _last_messages' = aexit._last_messages
    /\ _history' = aexit._history
    /\ UNCHANGED <<options, environ, stub, _client, tasks, calls, turns, closed,
                   received>>

\* the caller of Spec: one task, so calls never overlap
Caller == 1

\* the Conversation Client driven by one caller
Next ==
    \/ \E p \in Prompts : Submit(Caller, p)
    \/ \E r \in Responses, d \in Durations, s \in SessionIds :
           CreateReturns(Caller, r, d, s)
    \/ CreateRaises(Caller)
    \/ StubYield(Caller)
    \/ StubEnd(Caller)
    \/ StubRaises(Caller)
    \/ ReceiveResponse
    \/ Disconnect
    \/ AEnter
    \/ \E error \in BOOLEAN : AExit(error)

Spec == Init /\ [][Next]_vars

\* the three entry points driven by one caller
NextEntry ==
    \/ \E p \in Prompts : Submit(Caller, p)
    \/ \E p \in Prompts, supplied \in BOOLEAN : Query(Caller, p, supplied)
    \/ \E p \in Prompts, h \in DirectHistories : Generate(Caller, p, h)
    \/ \E ps \in StreamInputs, use \in StreamUses : Stream(Caller, ps, use)
    \/ \E r \in Responses, d \in Durations, s \in SessionIds :
           CreateReturns(Caller, r, d, s)
    \/ CreateRaises(Caller)
    \/ StubYield(Caller)
    \/ StubEnd(Caller)
    \/ StubRaises(Caller)

SpecEntry == Init /\ [][NextEntry]_vars

\* the state after construction with the given Options, key variable and
\* kind of transport
InitWith(opts, env_key, is_stub) ==
    /\ options = opts
    /\ environ = env_key
    /\ stub = is_stub
    /\ _client = [i \in TransportIds |-> opts.openai_client]
    /\ _history = <<>>
    /\ _last_messages = <<>>
    /\ tasks = [t \in Tasks |-> IdleTask]
    /\ calls = [t \in Tasks |-> NoCall]
    /\ turns = <<>>
    /\ closed = FALSE
    /\ received = <<>>
    /\ scope = "out"

InitRequest == \E o \in RequestOptions : InitWith(o, None, FALSE)

\* direct calls of OpenAITransport.generate under every combination of the
\* request fields
NextRequest ==
    \/ \E p \in Prompts, h \in DirectHistories : Generate(Caller, p, h)
    \/ \E r \in Responses, d \in Durations, s \in SessionIds :
           CreateReturns(Caller, r, d, s)
    \/ CreateRaises(Caller)

SpecRequest == InitRequest /\ [][NextRequest]_vars

InitPrompt == \E o \in PromptOptions : InitWith(o, None, FALSE)

\* the Conversation Client's turns and direct generate calls on the built-in
\* transport under each system prompt
NextPrompt ==
    \/ \E p \in Prompts : Submit(Caller, p)
    \/ \E p \in Prompts, h \in DirectHistories : Generate(Caller, p, h)
    \/ \E r \in Responses, d \in Durations, s \in SessionIds :
           CreateReturns(Caller, r, d, s)
    \/ CreateRaises(Caller)

SpecPrompt == InitPrompt /\ [][NextPrompt]_vars

\* overlapping submits start from a client over the built-in transport with
\* an injected backend client
InitConc ==
    InitWith([DefaultOptions EXCEPT !.openai_client = InjectedClient], None, FALSE)

\* what overlapping callers submit, each the text of its own number, and what
\* the backend returns to a caller when it does not raise: a response whose
\* text is that number
PromptOf(t) == Str(ToString(t))

ReplyTo(t) == [output_text |-> PromptOf(t), usage |-> FakeUsage]

\* the Conversation Client driven by several callers whose submits may overlap
NextConc ==
    \E t \in Tasks :
        \/ Submit(t, PromptOf(t))
        \/ \E d \in Durations, s \in SessionIds : CreateReturns(t, ReplyTo(t), d, s)
        \/ CreateRaises(t)

SpecConc == InitConc /\ [][NextConc]_vars

InitExtract ==
    InitWith([DefaultOptions EXCEPT !.openai_client = InjectedClient], None, FALSE)

\* direct calls of OpenAITransport.generate answered by every response of
\* ExtractResponses
NextExtract ==
    \/ Generate(Caller, Str("A"), None)
    \/ /\ tasks[Caller].pc = "awaiting"
       /\ \E r \in ExtractResponses, d \in Durations, s \in SessionIds :
              CreateReturns(Caller, r, d, s)
    \/ CreateRaises(Caller)

SpecExtract == InitExtract /\ [][NextExtract]_vars

----------------------------------------------------------------------------
(* What the claims speak of *)

\* the assistant-typed records of a batch whose content is a list, in order
ListAssistants(raws) ==
    SelectSeq(raws, LAMBDA raw : raw.type = "assistant" /\ isinstance_list(RawContent(raw)))

\* the history block of one completed turn: its user entry, then one
\* assistant entry per such record
TurnBlock(turn) ==
    <<UserEntry(turn.prompt)>>
    \o [i \in 1..Len(ListAssistants(turn.raw_messages)) |->
           [role |-> "assistant",
            content |-> ListAssistants(turn.raw_messages)[i].message.content]]

\* the blocks of a sequence of completed turns, in order
Replay(ts) == SeqConcat([i \in 1..Len(ts) |-> TurnBlock(ts[i])])

\* the turns completed before call c started (calls of Spec never overlap)
TurnsBefore(c) == IF c.status = "ok" THEN SubSeq(turns, 1, Len(turns) - 1) ELSE turns

\* C1: History replay. The history handed to every Transport.generate call a
\* submit makes is, in order, the blocks of the turns completed before it: per
\* turn the user entry of its prompt and then the assistant entries of its
\* assistant records; it is empty for the first call.
C1_HistoryReplay ==
    \A t \in Tasks :
        (calls[t].entry = "submit" /\ calls[t].generated)
            => calls[t].history = PyList(Replay(TurnsBefore(calls[t])))

\* C1 witness: submit("A") completed with its reply, then submit("B") was
\* handed [user A, assistant reply] and completed too
C1_Witness ==
    /\ Len(turns) = 2
    /\ turns[1].prompt = Str("A")
    /\ calls[Caller].entry = "submit"
    /\ calls[Caller].prompt = Str("B")
    /\ calls[Caller].status = "ok"
    /\ Len(calls[Caller].history.v) = 2
    /\ calls[Caller].history.v[1] = UserEntry(Str("A"))
    /\ calls[Caller].history.v[2].role = "assistant"

\* C2: for a string prompt and a backend response text can be extracted from,
\* Transport.generate yields exactly two records and ends: an assistant record
\* with a single text segment, then a result record with is_error false and
\* num_turns 1 whose result is the text of the assistant record.
C2_TwoRecords ==
    \A t \in Tasks :
        LET c == calls[t]
        IN (/\ c.transport = "openai"
            /\ isinstance_str(c.prompt)
            /\ c.response # None
            /\ ~_extract_text(c.response).raised)
           => /\ c.status = "ok"
              /\ Len(c.yielded) = 2
              /\ c.yielded[1].type = "assistant"
              /\ isinstance_list(c.yielded[1].message.content)
              /\ Len(c.yielded[1].message.content.v) = 1
              /\ c.yielded[1].message.content.v[1].type = "text"
              /\ c.yielded[2].type = "result"
              /\ c.yielded[2].is_error = FALSE
              /\ c.yielded[2].num_turns = 1
              /\ c.yielded[2].result = c.yielded[1].message.content.v[1].text

\* C2 witness: a direct generate call returned after the backend answered with
\* text in its output blocks
C2_Witness ==
    /\ calls[Caller].entry = "generate"
    /\ calls[Caller].status = "ok"
    /\ calls[Caller].response # None
    /\ calls[Caller].response.output_text = None
    /\ calls[Caller].yielded[2].result = Str("42")

\* the history the claim C3 describes: per completed turn the user entry, then
\* one assistant entry for every assistant-typed record, whatever its content
EveryAssistantBlock(turn) ==
    <<UserEntry(turn.prompt)>>
    \o [i \in 1..Len(SelectSeq(turn.raw_messages, LAMBDA raw : raw.type = "assistant")) |->
           [role |-> "assistant",
            content |-> RawContent(SelectSeq(turn.raw_messages,
                                             LAMBDA raw : raw.type = "assistant")[i])]]

\* C3 as stated: every successful submit extends the history by one user
\* entry and one assistant entry per assistant-typed record, for every batch.
C3_AsStated ==
    _history = SeqConcat([i \in 1..Len(turns) |-> EveryAssistantBlock(turns[i])])

\* C3 amended: every successful submit extends the history by one user entry
\* wrapping the prompt as a single text segment, then one assistant entry, with
\* the content verbatim, per assistant-typed record whose content is a list, in
\* transport order; other records, and assistant records whose content is
\* missing or not a list, add no entry.
C3_AppendTurn ==
    /\ _history = Replay(turns)
    /\ \A i \in 1..Len(turns) :
           /\ TurnBlock(turns[i])[1].role = "user"
           /\ TurnBlock(turns[i])[1].content = PyList(<<TextSegment(turns[i].prompt)>>)
           /\ Len(TurnBlock(turns[i])) = 1 + Len(ListAssistants(turns[i].raw_messages))

\* C3 witness: a turn completed whose batch held a result record and two
\* assistant records, and another whose assistant record had no list content
C3_Witness ==
    /\ Len(turns) = 2
    /\ turns[1].raw_messages = <<StubNoList, StubResult>>
    /\ Len(turns[2].raw_messages) = 3
    /\ Len(_history) = 4

\* C4: the history is append-only: every step of every client operation leaves
\* the history it found as a prefix of the history it leaves.
C4_AppendOnly == [][IsPrefix(_history, _history')]_vars

\* C4 witness: two turns are in the history, and the client was read and then
\* closed inside its scope after them
C4_Witness ==
    /\ Len(turns) = 2
    /\ Len(_history) >= 4
    /\ closed
    /\ received # <<>>
    /\ scope = "in"

\* what the slot holds of the latest completed submit, close() not counted
LatestTurnMessages ==
    IF turns = <<>> THEN <<>> ELSE ParseAll(turns[Len(turns)].raw_messages)

\* C5 as stated: lastResponse yields the typed messages of the most recent
\* successfully completed submit (none if no submit completed), and reading
\* changes neither the slot nor the history.
C5_AsStated ==
    [][ReceiveResponse => /\ received' = LatestTurnMessages
                          /\ _last_messages' = _last_messages
                          /\ _history' = _history]_vars

\* C5 amended: lastResponse yields, in transport order, the typed messages of
\* the most recent successfully completed submit, unless close() has run since
\* that submit completed or no submit has completed, and then it yields nothing;
\* reading any number of times changes neither the slot nor the history.
C5_LastResponse ==
    [][ReceiveResponse => /\ received' = IF closed THEN <<>> ELSE LatestTurnMessages
                          /\ _last_messages' = _last_messages
                          /\ _history' = _history]_vars

\* C5 witness: the two messages of a completed submit were read and are still
\* in the slot
C5_Witness ==
    /\ Len(turns) >= 1
    /\ ~closed
    /\ Len(received) = 2
    /\ received[1].class = "AssistantMessage"
    /\ received[2].class = "ResultMessage"
    /\ received = _last_messages

\* C6: a generate call has no partial success: a call that failed (type
\* error, configuration error, backend error, extraction error) or has not
\* returned yet has yielded no record, and a call that returned yielded both.
C6_NoPartialSuccess ==
    \A t \in Tasks :
        LET c == calls[t]
        IN (c.transport = "openai" /\ c.generated)
           => /\ c.status \in {"running", "ok", "TypeError", "ConfigError",
                               "BackendError", "ExtractError"}
              /\ (c.status # "ok") => c.yielded = <<>>
              /\ (c.status = "ok") => Len(c.yielded) = 2

\* C6 witness: the backend answered a generate call with a response holding no
\* text, and the call failed
C6_Witness ==
    /\ calls[Caller].transport = "openai"
    /\ calls[Caller].status = "ExtractError"
    /\ calls[Caller].creates = 1
    /\ calls[Caller].response # None

\* C7: a non-string prompt is rejected with a type error before any I/O:
\* generate raises before resolving the client or calling the backend, the
\* query function before building or calling a transport, submit before
\* calling generate, and the rejecting step changes neither the history nor
\* the last-response slot nor any transport's client handle.
C7_RejectNonString ==
    /\ [](\A t \in Tasks :
            LET c == calls[t]
            IN (c.entry \notin {"none", "stream"} /\ ~isinstance_str(c.prompt))
               => /\ c.status = "TypeError"
                  /\ ~c.ensured /\ ~c.looked_up /\ ~c.constructed
                  /\ c.creates = 0
                  /\ c.yielded = <<>>
                  /\ (c.entry \in {"query", "submit"})
                        => (~c.generated /\ ~c.made_transport))
    /\ [][\A t \in Tasks :
            (calls'[t] # calls[t] /\ ~isinstance_str(calls'[t].prompt)
                /\ calls'[t].entry \notin {"none", "stream"})
               => UNCHANGED <<_history, _last_messages, _client, turns>>]_vars

\* C7 witness: a submit with a non-string prompt was rejected by a client that
\* holds a turn
C7_Witness ==
    /\ calls[Caller].entry = "submit"
    /\ calls[Caller].prompt = Int("7")
    /\ calls[Caller].status = "TypeError"
    /\ Len(_history) >= 2
    /\ _last_messages # <<>>

\* neither Options nor the environment supplies a non-empty key and no client
\* handle was injected
NoCredential ==
    /\ options.openai_client = None
    /\ options.openai_api_key \in {None, Str("")}
    /\ environ \in {None, Str("")}

\* C8: without an injected handle and without a non-empty key in Options or in
\* OPENAI_API_KEY, every generate call (of a string prompt) fails with a
\* configuration error and responses.create is never invoked; a client that
\* is built gets the key of Options when there is one, else the variable's.
C8_MissingCredential ==
    /\ NoCredential =>
           \A t \in Tasks :
               (calls[t].transport = "openai" /\ isinstance_str(calls[t].prompt))
                   => /\ calls[t].status = "ConfigError"
                      /\ calls[t].creates = 0
                      /\ calls[t].response = None
    /\ \A i \in TransportIds :
           (_client[i].py = "AsyncOpenAI")
               => _client[i].kwargs["api_key"] =
                      IF options.openai_api_key \notin {None, Str("")}
                      THEN options.openai_api_key ELSE environ

\* C8 witness: a generate call failed with a configuration error
C8_Witness ==
    /\ NoCredential
    /\ calls[Caller].entry = "generate"
    /\ calls[Caller].status = "ConfigError"
    /\ calls[Caller].looked_up

\* C9 as stated: leaving the client's scope, normally or by an error, runs
\* close(): after the exit the last-response slot is empty.
C9_ScopeExitCloses ==
    [][(scope = "in" /\ scope' = "out") => _last_messages' = <<>>]_vars

\* C10: close() empties the last-response slot and leaves the history as it
\* was: lastResponse then yields nothing, and a submit made after it is handed
\* the whole history accumulated before the close.
C10_CloseKeepsHistory ==
    /\ [][Disconnect => /\ _last_messages' = <<>>
                        /\ _history' = _history
                        /\ receive_response.yielded' = <<>>]_vars
    /\ [](\A t \in Tasks :
            (calls[t].entry = "submit" /\ calls[t].after_close
                /\ calls[t].status = "running")
               => /\ calls[t].history = PyList(_history)
                  /\ _history = Replay(turns))

\* C10 witness: a submit made after close() was handed the turn completed
\* before the close
C10_Witness ==
    /\ calls[Caller].entry = "submit"
    /\ calls[Caller].after_close
    /\ calls[Caller].status = "running"
    /\ Len(calls[Caller].history.v) >= 2
    /\ Len(turns) = 1
    /\ _last_messages = <<>>

\* the request fields that may be left unset
OptionalFields == {"temperature", "max_output_tokens", "response_format"}

\* the keys a request may carry: model, input, the optional fields that are
\* set, and the extra headers when there are any
AllowedKeys ==
    {"model", "input"} \cup {f \in OptionalFields : options[f] # None}
    \cup (IF options.extra_headers.v # <<>> THEN {"extra_headers"} ELSE {})

\* the calls that got as far as building a request
Built(c) == c.transport = "openai" /\ c.creates = 1

\* C11 as stated: every optional field that is set is in the request with the
\* value Options holds, every unset one is absent, and nothing else is there.
C11_AsStated ==
    \A t \in Tasks :
        Built(calls[t])
            => /\ \A f \in OptionalFields :
                    IF options[f] # None
                    THEN f \in DOMAIN calls[t].request
                         /\ calls[t].request[f] = options[f]
                    ELSE f \notin DOMAIN calls[t].request
               /\ DOMAIN calls[t].request \subseteq AllowedKeys

\* C11: every optional field that is set (falsy values such as temperature
\* 0.0 included) is in the request, temperature and max_output_tokens with
\* the value Options holds, response_format with that value when it is a
\* mapping and as {"type": value} when it is a string; every unset one is
\* absent as a key; the request has no key besides model, input, the set
\* optional fields and extra_headers (present iff Options holds any).
C11_OptionalFields ==
    \A t \in Tasks :
        LET req == calls[t].request
        IN Built(calls[t])
            => /\ \A f \in OptionalFields :
                    (f \in DOMAIN req) <=> (options[f] # None)
               /\ \A f \in {"temperature", "max_output_tokens"} :
                    (f \in DOMAIN req) => req[f] = options[f]
               /\ ("response_format" \in DOMAIN req)
                    => req["response_format"] =
                          IF options.response_format.py = "str"
                          THEN PyDict("type" :> options.response_format)
                          ELSE options.response_format
               /\ \A k \in DOMAIN req : req[k] # None
               /\ DOMAIN req = AllowedKeys
               /\ ("extra_headers" \in DOMAIN req)
                    => req["extra_headers"] = options.extra_headers

\* C11 witness: a request built under temperature 0.0, a zero token cap and a
\* string response format carries all three, the format as a mapping
C11_Witness ==
    /\ options.temperature = Float("0.0")
    /\ options.max_output_tokens = Int("0")
    /\ options.response_format = Str("json_object")
    /\ options.extra_headers.v = <<>>
    /\ Built(calls[Caller])
    /\ DOMAIN calls[Caller].request =
          {"model", "input", "temperature", "max_output_tokens", "response_format"}
    /\ calls[Caller].request["temperature"] = Float("0.0")
    /\ calls[Caller].request["response_format"] = PyDict("type" :> Str("json_object"))

\* the text of the configured system prompt: the string itself, or a
\* preset's "append" value; None when there is none
ConfiguredText ==
    IF options.system_prompt.py = "str" THEN options.system_prompt
    ELSE IF options.system_prompt.py = "dict"
            /\ "append" \in DOMAIN options.system_prompt.v
    THEN options.system_prompt.v["append"]
    ELSE None

SystemEntry(text) == [role |-> "system", content |-> PyList(<<TextSegment(text)>>)]

\* the history argument of a call as a sequence (None and [] seed nothing)
Supplied(c) == IF c.history.py = "list" THEN c.history.v ELSE <<>>

SystemEntries(entries) == SelectSeq(entries, LAMBDA e : e.role = "system")

\* C12: the input of every request is the supplied history verbatim and in
\* order, then one system entry iff a system prompt with text is configured,
\* then the user entry of the new prompt, which is always last with the
\* system entry right before it; the history a submit replays holds no system
\* entry, so no request of the client carries more than one.
C12_InputOrder ==
    \A t \in Tasks :
        LET c == calls[t]
            input == c.request["input"].v
            n == Len(Supplied(c))
        IN Built(c)
            => /\ IsPrefix(Supplied(c), input)
               /\ input[Len(input)] = UserEntry(c.prompt)
               /\ Len(input) = n + (IF ConfiguredText \notin {None, Str("")} THEN 2 ELSE 1)
               /\ Len(input) = n + 2 => input[n + 1].role = "system"
               /\ c.entry = "submit"
                    => /\ SystemEntries(Supplied(c)) = <<>>
                       /\ Len(SystemEntries(input)) <= 1

\* C12 witness: the second turn of a client with a system prompt sent the
\* first turn's two entries, the system entry and the new user entry
C12_Witness ==
    /\ options.system_prompt = Str("Be brief")
    /\ calls[Caller].entry = "submit"
    /\ Built(calls[Caller])
    /\ Len(Supplied(calls[Caller])) = 2
    /\ Len(calls[Caller].request["input"].v) = 4
    /\ calls[Caller].request["input"].v[3].role = "system"
    /\ calls[Caller].request["input"].v[4] = UserEntry(calls[Caller].prompt)

\* C13: a preset system prompt with a non-empty append X gives one system
\* entry whose text is X, a non-empty plain string one whose text is that
\* string; a preset without append or with an empty one, an empty string and
\* no system prompt give no system entry.
C13_SystemPrompt ==
    \A t \in Tasks :
        Built(calls[t])
            => SystemEntries(calls[t].request["input"].v) =
                  IF ConfiguredText \in {None, Str("")} THEN <<>>
                  ELSE <<SystemEntry(ConfiguredText)>>

\* C13 witness: under the preset with append "Extra" a request was built whose
\* first entry is the system entry of text "Extra"
C13_Witness ==
    /\ options.system_prompt = Preset(Str("Extra"))
    /\ Built(calls[Caller])
    /\ calls[Caller].request["input"].v[1] = SystemEntry(Str("Extra"))
    /\ Len(calls[Caller].request["input"].v) = 2

\* C14: the Query Function forwards the transport's records through the
\* parser one for one in arrival order: the messages it has delivered are the
\* parses of the records yielded so far, as many as the records once the call
\* has ended normally; and it keeps nothing between calls: every query call
\* that reaches a transport calls generate with its prompt and no history,
\* whatever turns the client completed before.
C14_QueryForwards ==
    \A t \in Tasks :
        LET c == calls[t]
        IN c.entry = "query"
            => /\ c.generated => c.history = None
               /\ Built(c) => c.request["input"].v = <<UserEntry(c.prompt)>>
               /\ Len(c.delivered) <= Len(c.yielded)
               /\ \A i \in 1..Len(c.delivered) :
                     /\ ~parse_message(c.yielded[i]).raised
                     /\ c.delivered[i] = parse_message(c.yielded[i]).message
               /\ c.status \in {"ok", "running"} => Len(c.delivered) = Len(c.yielded)
               /\ c.status = "ParseError" => Len(c.yielded) = Len(c.delivered) + 1

\* C14 witness: after the client completed a turn, a query call over its
\* scripted transport delivered three messages for three records
C14_Witness ==
    /\ calls[Caller].entry = "query"
    /\ calls[Caller].status = "ok"
    /\ Len(_history) >= 2
    /\ Len(calls[Caller].yielded) = 3
    /\ Len(calls[Caller].delivered) = 3
    /\ calls[Caller].delivered[1].class = "ResultMessage"
    /\ calls[Caller].delivered[3].class = "AssistantMessage"

\* C15: every call of Transport.stream fails with the not-implemented error,
\* whatever its input and the state: it yields no record, calls no backend,
\* resolves and builds no client handle.
C15_StreamNotImplemented ==
    \A t \in Tasks :
        LET c == calls[t]
        IN c.entry = "stream"
            => /\ c.status = "NotImplementedError"
               /\ c.yielded = <<>>
               /\ c.delivered = <<>>
               /\ c.creates = 0
               /\ ~c.ensured /\ ~c.looked_up /\ ~c.constructed

\* C16: a generate call that passes prompt validation and client resolution
\* calls responses.create exactly once, whether the call returns, raises, or
\* returns a response no text can be extracted from, and a call that fails one
\* of the two calls it not at all; no step of a call in flight calls it again,
\* so every submit accounts for at most one backend call.
C16_OneCreatePerCall ==
    /\ [](\A t \in Tasks :
            LET c == calls[t]
            IN (c.transport = "openai" /\ c.generated)
               => /\ c.creates = IF isinstance_str(c.prompt) /\ c.status # "ConfigError"
                                 THEN 1 ELSE 0
                  /\ c.status \in {"TypeError", "ConfigError", "running",
                                    "BackendError", "ExtractError", "ok"}
                  /\ (tasks[t].pc = "awaiting") <=> (c.status = "running"))
    /\ [][\A t \in Tasks :
            /\ calls'[t].creates # calls[t].creates => Idle(t)
            /\ (tasks[t].pc = "awaiting" /\ tasks'[t] # tasks[t]) => Idle(t)']_vars

\* C16 witness: the second submit of a client ended with the backend's error
\* after one call of responses.create
C16_Witness ==
    /\ calls[Caller].entry = "submit"
    /\ calls[Caller].status = "BackendError"
    /\ calls[Caller].creates = 1
    /\ Len(turns) = 1
    /\ Idle(Caller)

\* the ways a submit fails: rejected prompt, no credential, backend error, no
\* extractable text, a record the parser rejects, an error of the transport
SubmitFailures ==
    {"TypeError", "ConfigError", "BackendError", "ExtractError", "ParseError",
     "TransportError"}

\* C17: a submit that fails leaves the conversation state as it was: no step
\* of a submit other than its successful end (its start, the receipt of a raw
\* record, its failure at any point) changes the history, the last-response
\* slot or the completed turns; after a failure the history is still the
\* blocks of the completed turns, and the slot still holds what it held: the
\* messages of the latest completed submit, or nothing once close() has run.
C17_FailedSubmit ==
    /\ [][\A t \in Tasks :
            (calls'[t] # calls[t] /\ calls'[t].entry = "submit"
                /\ calls'[t].status # "ok")
               => UNCHANGED <<_history, _last_messages, turns>>]_vars
    /\ [](\A t \in Tasks :
            (calls[t].entry = "submit" /\ calls[t].status \in SubmitFailures)
               => /\ _history = Replay(turns)
                  /\ _last_messages = IF closed THEN <<>> ELSE LatestTurnMessages)

\* C17 witness: the second submit failed after its transport had yielded a
\* record; the history and the slot are those of the first
C17_Witness ==
    /\ calls[Caller].entry = "submit"
    /\ calls[Caller].status = "TransportError"
    /\ Len(calls[Caller].yielded) >= 1
    /\ Len(turns) = 1
    /\ ~closed
    /\ _last_messages # <<>>
    /\ _last_messages = ParseAll(turns[1].raw_messages)
    /\ _history = TurnBlock(turns[1])

\* the blocks of the first k completed turns
ReplayFirst(k) == Replay(SubSeq(turns, 1, k))

\* C18: with overlapping submits the history and the last-response slot follow
\* completion order: the history is the blocks of the completed turns in the
\* order they completed and the slot holds the messages of the one that
\* completed last; the history a turn's generate call was handed is the blocks
\* of the turns completed when it started, so it omits every turn still in
\* flight then. When no turn started while another submit was in flight (the
\* caller serialized them), every turn's call was handed all the turns before
\* it, and none of the race is left.
C18_CompletionOrder ==
    /\ _history = ReplayFirst(Len(turns))
    /\ _last_messages = LatestTurnMessages
    /\ \A j \in 1..Len(turns) :
          /\ \E k \in 0..(j - 1) : turns[j].history = PyList(ReplayFirst(k))
          /\ (\A i \in 1..j : turns[i].rank = 0)
                => turns[j].history = PyList(ReplayFirst(j - 1))

\* C18 witness: of two overlapping submits the one started later completed
\* first; its generate call was handed an empty history, as was the earlier
\* one's; the history holds the later-started turn first and the slot the
\* messages of the earlier-started one
C18_Witness ==
    /\ Len(turns) = 2
    /\ turns[1].rank = 1
    /\ turns[2].rank = 0
    /\ turns[1].history = PyList(<<>>)
    /\ turns[2].history = PyList(<<>>)
    /\ _history = TurnBlock(turns[1]) \o TurnBlock(turns[2])
    /\ _last_messages = ParseAll(turns[2].raw_messages)
    /\ _last_messages # ParseAll(turns[1].raw_messages)

\* C19: in every reachable state, submits overlapping or not, the history is
\* whole turn blocks one after another, each a user entry followed at once by
\* that turn's assistant entries, one block per successfully completed submit
\* and nothing of a submit in flight or failed: it has as many user entries as
\* submits completed; over the built-in transport it has two entries per
\* completed submit, user and assistant in turn.
C19_WholeTurns ==
    /\ _history = SeqConcat([i \in 1..Len(turns) |-> TurnBlock(turns[i])])
    /\ Cardinality({i \in DOMAIN _history : _history[i].role = "user"}) = Len(turns)
    /\ ~stub =>
          /\ Len(_history) = 2 * Len(turns)
          /\ \A i \in DOMAIN _history :
                _history[i].role = IF i % 2 = 1 THEN "user" ELSE "assistant"
          /\ \A i \in 1..Len(turns) :
                /\ _history[2 * i - 1] = UserEntry(turns[i].prompt)
                /\ _history[2 * i].content.v[1].text = _history[2 * i - 1].content.v[1].text

\* C19 witness: two submits that overlapped have both completed, the one
\* started first completing first, and the history is their two blocks
C19_Witness ==
    /\ Len(turns) = 2
    /\ turns[1].rank = 0
    /\ turns[2].rank = 1
    /\ turns[2].history = PyList(<<>>)
    /\ Len(_history) = 4
    /\ _history[1].role = "user" /\ _history[2].role = "assistant"
    /\ _history[3].role = "user" /\ _history[4].role = "assistant"
    /\ _history[1] # _history[3]

\* the transport instance a call of caller t ran on: the one the query
\* function built for it, else the client's
TransportOf(c, t) == IF c.made_transport THEN t ELSE 0

\* a step in which caller t starts a call
Starts(t) == Idle(t) /\ calls'[t] # calls[t]

\* C20: the backend client handle is resolved lazily and memoized per
\* transport instance. A transport holds no handle until a call finds a
\* credential and builds one; once it holds one, every later call on it uses
\* that handle and neither looks a credential up nor builds another. An
\* injected handle is the handle of every call, with no lookup and no
\* construction. A resolution that fails leaves the transport without a
\* handle. A call changes the handle of the transport it runs on only, so a
\* handle one transport built is never installed in another.
C20_HandleMemoized ==
    /\ [](/\ options.openai_client # None
             => /\ \A i \in TransportIds : _client[i] = options.openai_client
                /\ \A t \in Tasks : ~calls[t].looked_up /\ ~calls[t].constructed
          /\ \A t \in Tasks :
                LET c == calls[t]
                IN /\ c.constructed
                      => /\ c.looked_up
                         /\ Truthy(PyOr(options.openai_api_key, environ))
                         /\ _client[TransportOf(c, t)].py = "AsyncOpenAI"
                   /\ c.status = "ConfigError" => _client[TransportOf(c, t)] = None
                   /\ (c.ensured /\ c.status # "ConfigError")
                      => _client[TransportOf(c, t)] # None)
    /\ [][\A t \in Tasks :
            Starts(t)
               => /\ (~calls'[t].made_transport /\ _client[0] # None)
                     => /\ ~calls'[t].constructed /\ ~calls'[t].looked_up
                        /\ _client'[0] = _client[0]
                  /\ calls'[t].constructed
                     => (calls'[t].made_transport \/ _client[0] = None)
                  /\ \A i \in TransportIds \ {TransportOf(calls'[t], t)} :
                        _client'[i] = _client[i]]_vars
    /\ [][(\A t \in Tasks : ~Starts(t)) => _client' = _client]_vars

\* C20 witness: the client's transport built its handle in the first turn and
\* the second submit runs on that handle without lookup or construction,
\* while the transport the query function would build holds none
C20_Witness ==
    /\ options.openai_client = None
    /\ Len(turns) = 1
    /\ calls[Caller].entry = "submit"
    /\ calls[Caller].status = "running"
    /\ calls[Caller].ensured
    /\ ~calls[Caller].constructed
    /\ ~calls[Caller].looked_up
    /\ _client[0].py = "AsyncOpenAI"
    /\ _client[Caller] = None

\* the content segments of a response's output in scan order: those of every
\* item that is a mapping with a list for content
Segments(response) ==
    IF "output" \in DOMAIN response /\ response.output.py = "list"
    THEN SeqConcat([i \in 1..Len(response.output.v) |->
                       LET item == response.output.v[i]
                       IN IF item.py = "dict" /\ "content" \in DOMAIN item.v
                             /\ item.v["content"].py = "list"
                          THEN item.v["content"].v ELSE <<>>])
    ELSE <<>>

TextTyped(block) ==
    block.py = "dict" /\ "type" \in DOMAIN block.v /\ block.v["type"] = Str("output_text")

\* the convenience text field is present and not null
HasConvenience(response) ==
    "output_text" \in DOMAIN response /\ response.output_text # None

\* what a call that got a response did, given the segments stage two takes
\* for text: the text it yielded is the convenience field's (rendered as a
\* str), else that of the first such segment; with neither it failed after
\* its one backend call, yielding nothing
Extracted(c, found) ==
    /\ c.creates = 1
    /\ IF HasConvenience(c.response) \/ found # <<>>
       THEN /\ c.status = "ok"
            /\ Len(c.yielded) = 2
            /\ c.yielded[1].message.content.v[1].text =
                  IF HasConvenience(c.response) THEN Str(c.response.output_text.v)
                  ELSE found[1].v["text"]
            /\ c.yielded[2].result = c.yielded[1].message.content.v[1].text
       ELSE /\ c.status = "ExtractError"
            /\ c.yielded = <<>>
            /\ c.delivered = <<>>

\* C21 as stated: the convenience field's value when it is present and not
\* null, else the text of the first text-typed content segment of the output
\* blocks in scan order, else an extraction error after the single backend
\* call, with no record yielded.
C21_AsStated ==
    \A t \in Tasks :
        (calls[t].transport = "openai" /\ calls[t].response # None)
            => Extracted(calls[t],
                         SelectSeq(Segments(calls[t].response), TextTyped))

\* C21: the convenience field's value rendered as a str when the field is
\* present and not null; else the text of the first content segment, in scan
\* order over the output items that are mappings with a list for content,
\* that is a mapping of type output_text whose text is a str (text-typed
\* segments with any other text are passed over); else an extraction error
\* after the single backend call, with no record yielded and no retry.
C21_ExtractText ==
    \A t \in Tasks :
        (calls[t].transport = "openai" /\ calls[t].response # None)
            => Extracted(calls[t],
                         SelectSeq(Segments(calls[t].response),
                                   LAMBDA b : TextTyped(b) /\ "text" \in DOMAIN b.v
                                                /\ b.v["text"].py = "str"))

\* C21 witness: the convenience field was null, the first item held a segment
\* of another type and a text-typed one without text, and the text of the
\* second item's first segment was yielded
C21_Witness ==
    /\ calls[Caller].status = "ok"
    /\ "output_text" \in DOMAIN calls[Caller].response
    /\ calls[Caller].response.output_text = None
    /\ Len(calls[Caller].response.output.v) = 2
    /\ calls[Caller].response.output.v[1].v["content"] =
          PyList(<<PyDict([type |-> Str("reasoning"), text |-> Str("thought")]),
                   OutputText(None)>>)
    /\ calls[Caller].response.output.v[2].v["content"] =
          PyList(<<OutputText(Str("second")), OutputText(Str("first"))>>)
    /\ calls[Caller].yielded[1].message.content.v[1].text = Str("second")

====
